---- MODULE Spec2Model ----
(***************************************************************************)
(* The weather dashboard's asynchronous fetch-and-render pipeline          *)
(* (src/WEATHER_APP.py): the fetch worker threads, the result queue, the   *)
(* UI-thread poller that applies results to the display, and the           *)
(* WeatherCanvas animation thread with its lock, tick counter and stop     *)
(* flag.                                                                   *)
(*                                                                         *)
(* A Python value is a one-field record whose field name is its type, so   *)
(* that values of different types can be compared: [none], [str], [num],   *)
(* [dict], [list].  A Python str is a sequence of one-character strings,   *)
(* so that strip, lower, title and substring tests are computed; text the  *)
(* program only displays (labels, the status line, error messages) is a    *)
(* string, [text].                                                         *)
(***************************************************************************)
EXTENDS Integers, Sequences, FiniteSets, TLC

VARIABLES
    api_key,        \* WeatherFetcher.api_key (module constant API_KEY)
    search_var,     \* the search entry's text
    threads,        \* the fetch worker threads, in the order they were started,
                    \* each with the provider behaviour it met (sc) and the
                    \* number of results received before it started (seen)
    queue,          \* WeatherDashboard.queue: messages (typ, payload), each
                    \* tagged with the thread that put it (by)
    pollers,        \* number of pending after(100, _process_queue) callbacks
    widgets,        \* number of CTkLabel widgets created by the error branch
    status,         \* status_label text
    ui,             \* the display fields (labels, sun arc, hourly cards)
    current_data,   \* WeatherDashboard.current_data
    condition,      \* WeatherCanvas.condition
    _anim_t,        \* WeatherCanvas._anim_t
    _stop,          \* WeatherCanvas._stop
    _lock,          \* holder of WeatherCanvas._lock: "free", "ui" or "anim"
    canvas,         \* what WeatherCanvas.canvas shows: <<>> or <<scene, tick>>
    anim,           \* the animation thread: position and locals
    destroyed,      \* the window was destroyed by _on_close
    favorites,      \* WeatherDashboard.favorites
    favorites_file, \* what favorites.json holds
    fav_menu,       \* the values of the favorites menu
    hist            \* history: the order of pushes and receives, the last poll,
                    \* the tick of the first frame drawn for the current condition,
                    \* the tick of the last frame whose draw raised, the clock
                    \* reading of the last _draw_sun_arc

vars == <<api_key, search_var, threads, queue, pollers, widgets, status, ui,
          current_data, condition, _anim_t, _stop, _lock, canvas, anim,
          destroyed, favorites, favorites_file, fav_menu, hist>>

(***************************************************************************)
(* Bounds of the model.                                                    *)
(***************************************************************************)
MaxSearches == 2    \* worker threads started in one run
MaxTick == 2        \* the tick counter is not incremented beyond this
MaxFetches == 1     \* worker threads started in a run of FetchSpec
MaxFlashTick == 151 \* the limit of the tick counter in a run of FlashSpec

(***************************************************************************)
(* Python values.                                                          *)
(***************************************************************************)
PyNone == [none |-> TRUE]
PyStr(s) == [str |-> s]
PyNum(n) == [num |-> n]
PyDict(f) == [dict |-> f]
PyList(s) == [list |-> s]
PyText(t) == [text |-> t]

IsNone(v) == "none" \in DOMAIN v
IsStr(v) == "str" \in DOMAIN v
IsNum(v) == "num" \in DOMAIN v
IsDict(v) == "dict" \in DOMAIN v
IsList(v) == "list" \in DOMAIN v
IsText(v) == "text" \in DOMAIN v

EmptyDict == PyDict(<<>>)
EmptyList == PyList(<<>>)

\* dict.get(k, default) on a value known to be a dict
DictGet(d, k, default) ==
    IF k \in DOMAIN d.dict THEN d.dict[k] ELSE default

\* Python truthiness of a value
Truthy(v) ==
    IF IsNone(v) THEN FALSE
    ELSE IF IsText(v) THEN v.text # ""
    ELSE IF IsStr(v) THEN v.str # <<>>
    ELSE IF IsNum(v) THEN v.num # 0
    ELSE IF IsDict(v) THEN DOMAIN v.dict # {}
    ELSE Len(v.list) > 0

\* cur[k] succeeds: a dict with key k, or a list or str with index k
CanIndex(cur, k) ==
    IF IsDict(cur) THEN IsText(k) /\ k.text \in DOMAIN cur.dict
    ELSE IF IsList(cur) THEN IsNum(k) /\ k.num >= 0 /\ k.num < Len(cur.list)
    ELSE IF IsStr(cur) THEN IsNum(k) /\ k.num >= 0 /\ k.num < Len(cur.str)
    ELSE FALSE

Index(cur, k) ==
    IF IsDict(cur) THEN cur.dict[k.text]
    ELSE IF IsList(cur) THEN cur.list[k.num + 1]
    ELSE PyStr(<<cur.str[k.num + 1]>>)

\* F applied to the value of x, computed once
Bind(x, F(_)) == CHOOSE r \in {F(w) : w \in {x}} : TRUE

\* safe_get(d, *keys, default): every positional argument after d is a key
RECURSIVE safe_get(_, _, _)
safe_get(d, keys, default) ==
    IF keys = <<>> THEN d
    ELSE Bind(d, LAMBDA cur :
             IF CanIndex(cur, Head(keys))
             THEN safe_get(Index(cur, Head(keys)), Tail(keys), default)
             ELSE default)

\* the characters of a str as display text
RECURSIVE JoinFirst(_, _)
JoinFirst(cs, n) == IF n = 0 THEN "" ELSE JoinFirst(cs, n - 1) \o cs[n]
Join(cs) == Bind(cs, LAMBDA w : JoinFirst(w, Len(w)))

\* str(v) as an f-string formats it
Fmt(v) ==
    IF IsNone(v) THEN "None"
    ELSE IF IsText(v) THEN v.text
    ELSE IF IsStr(v) THEN Join(v.str)
    ELSE IF IsNum(v) THEN ToString(v.num)
    ELSE IF IsDict(v) THEN "{...}"
    ELSE "[...]"

(***************************************************************************)
(* str methods.                                                            *)
(***************************************************************************)
\* the letters str.lower() and str.upper() change, each with its image
ToLower == [A |-> "a", B |-> "b", C |-> "c", D |-> "d", E |-> "e", F |-> "f",
            G |-> "g", H |-> "h", I |-> "i", J |-> "j", K |-> "k", L |-> "l",
            M |-> "m", N |-> "n", O |-> "o", P |-> "p", Q |-> "q", R |-> "r",
            S |-> "s", T |-> "t", U |-> "u", V |-> "v", W |-> "w", X |-> "x",
            Y |-> "y", Z |-> "z"]
ToUpper == [a |-> "A", b |-> "B", c |-> "C", d |-> "D", e |-> "E", f |-> "F",
            g |-> "G", h |-> "H", i |-> "I", j |-> "J", k |-> "K", l |-> "L",
            m |-> "M", n |-> "N", o |-> "O", p |-> "P", q |-> "Q", r |-> "R",
            s |-> "S", t |-> "T", u |-> "U", v |-> "V", w |-> "W", x |-> "X",
            y |-> "Y", z |-> "Z"]

IsUpper(c) == c \in DOMAIN ToLower
IsLower(c) == c \in DOMAIN ToUpper
LowerChar(c) == IF IsUpper(c) THEN ToLower[c] ELSE c
UpperChar(c) == IF IsLower(c) THEN ToUpper[c] ELSE c
IsSpace(c) == c \in {" ", "\t", "\n"}

\* str.lower()
Lower(cs) == Bind(cs, LAMBDA w : [i \in 1..Len(w) |-> LowerChar(w[i])])

\* str.title(): a letter after a non-letter is upper case, any other lower case
Title(cs) ==
    Bind(cs, LAMBDA w :
        [i \in 1..Len(w) |->
            IF i = 1 \/ ~(IsUpper(w[i - 1]) \/ IsLower(w[i - 1]))
            THEN UpperChar(w[i]) ELSE LowerChar(w[i])])

\* str.strip()
RECURSIVE LStrip(_)
LStrip(cs) == IF cs # <<>> /\ IsSpace(Head(cs)) THEN LStrip(Tail(cs)) ELSE cs
RECURSIVE RStrip(_)
RStrip(cs) ==
    IF cs # <<>> /\ IsSpace(cs[Len(cs)]) THEN RStrip(SubSeq(cs, 1, Len(cs) - 1)) ELSE cs
Strip(cs) == RStrip(LStrip(cs))

\* sub in cs
Contains(cs, sub) ==
    Bind(cs, LAMBDA w :
        \E i \in 1..(Len(w) - Len(sub) + 1) : SubSeq(w, i, i + Len(sub) - 1) = sub)

(***************************************************************************)
(* The weather provider.  One HTTP exchange either fails on the wire or    *)
(* returns a status and a body; a body is JSON (a Python value once        *)
(* decoded) or text that is not JSON.                                      *)
(***************************************************************************)
ConnFail == [kind |-> "conn"]
TimedOut == [kind |-> "timeout"]
Reply(st, b) == [kind |-> "reply", status_code |-> st, body |-> b]
Json(v) == [json |-> v]
NotJson == [text |-> "<html>"]

\* the current-weather lookup's body for a known city
WeatherBody ==
    PyDict([coord |-> PyDict([lat |-> PyNum(48), lon |-> PyNum(2)]),
            name |-> PyStr(<<"P", "a", "r", "i", "s">>),
            sys |-> PyDict([country |-> PyStr(<<"F", "R">>)]),
            timezone |-> PyNum(3600)])

\* the provider's error body
ErrorBody(m) == PyDict([cod |-> PyStr(<<"4", "0", "4">>), message |-> PyStr(m)])

CityNotFound ==
    <<"c", "i", "t", "y", " ", "n", "o", "t", " ", "f", "o", "u", "n", "d">>
Rain == <<"R", "a", "i", "n">>
LightRain == <<"l", "i", "g", "h", "t", " ", "r", "a", "i", "n">>
Clouds == <<"C", "l", "o", "u", "d", "s">>
Snow == <<"S", "n", "o", "w">>
Thunderstorm == <<"T", "h", "u", "n", "d", "e", "r", "s", "t", "o", "r", "m">>

Weather(main, description) ==
    PyList(<<PyDict([main |-> PyStr(main), description |-> PyStr(description)])>>)

Hour(dt, temp, main) ==
    PyDict([dt |-> PyNum(dt), temp |-> PyNum(temp), weather |-> Weather(main, main)])

\* one-call bodies: a full one, one with every optional field absent, one whose
\* current record is not an object, one whose hourly entry lacks its temperature
OneCallRain ==
    PyDict([current |->
               PyDict([temp |-> PyNum(18), feels_like |-> PyNum(17),
                       humidity |-> PyNum(80), wind_speed |-> PyNum(5),
                       pressure |-> PyNum(1012), visibility |-> PyNum(9000),
                       sunrise |-> PyNum(21600), sunset |-> PyNum(64800),
                       weather |-> Weather(Rain, LightRain)]),
            hourly |-> PyList(<<Hour(3600, 18, Rain), Hour(7200, 19, Clouds)>>)])

OneCallBare == PyDict([current |-> EmptyDict, hourly |-> EmptyList])

OneCallStorm ==
    PyDict([current |-> PyDict([temp |-> PyNum(25),
                                weather |-> Weather(Thunderstorm, Thunderstorm)])])

OneCallBadCurrent ==
    PyDict([current |-> PyList(<<PyNum(18)>>), hourly |-> EmptyList])

OneCallBadHourly ==
    PyDict([current |-> PyDict([temp |-> PyNum(3), weather |-> Weather(Snow, Snow)]),
            hourly |-> PyList(<<PyDict([dt |-> PyNum(3600)])>>)])

\* a one-call body whose current condition is keyword k
OneCallOf(k) ==
    PyDict([current |-> PyDict([temp |-> PyNum(10), weather |-> Weather(k, k)])])

\* condition keywords: the provider's groups, and two that match several rules
Keywords ==
    { Rain, Snow, Clouds, Thunderstorm,
      <<"D", "r", "i", "z", "z", "l", "e">>,
      <<"F", "o", "g">>, <<"M", "i", "s", "t">>, <<"H", "a", "z", "e">>,
      <<"C", "l", "e", "a", "r">>, <<"T", "o", "r", "n", "a", "d", "o">>,
      <<"S", "t", "o", "r", "m", " ", "C", "l", "o", "u", "d", "s">>,
      <<"S", "n", "o", "w", " ", "R", "a", "i", "n">> }

\* the hourly cards _update_ui_with_data builds at most
HourlyCap == 12

\* a one-call body whose hourly entries carry the timestamps dts, in that order
OneCallHourly(dts) ==
    PyDict([current |-> PyDict([temp |-> PyNum(10), humidity |-> PyNum(50),
                                pressure |-> PyNum(1000),
                                weather |-> Weather(Clouds, Clouds)]),
            hourly |-> PyList([i \in 1..Len(dts) |-> Hour(dts[i], 10 + i, Clouds)])])

\* one more hourly entry than is shown, in time order; and three out of order
OneCallLong == OneCallHourly([i \in 1..(HourlyCap + 1) |-> 3600 * i])
OneCallShuffled == OneCallHourly(<<10800, 3600, 7200>>)

\* a one-call body with the sun rising at sr and setting at ss
OneCallSun(sr, ss) ==
    PyDict([current |-> PyDict([temp |-> PyNum(10), humidity |-> PyNum(50),
                                pressure |-> PyNum(1000),
                                sunrise |-> PyNum(sr), sunset |-> PyNum(ss),
                                weather |-> Weather(Clouds, Clouds)])])

\* sunrise and sunset times, in any order; clock readings before, between,
\* at and after them
SunStamps == {21600, 43200, 64800}
SunNows == {10000, 21600, 30000, 43200, 64800, 70000}

\* what the provider does with the two requests of one fetch
Scenario(a, b) == [first |-> a, second |-> b]

Ok(oc) == Scenario(Reply(200, Json(WeatherBody)), Reply(200, Json(oc)))

OkScenarios ==
    { Ok(oc) : oc \in {OneCallRain, OneCallBare, OneCallStorm, OneCallBadCurrent,
                       OneCallBadHourly, OneCallLong, OneCallShuffled} }

FailScenarios ==
    { Scenario(ConnFail, ConnFail),
      Scenario(Reply(200, Json(WeatherBody)), TimedOut),
      Scenario(Reply(404, Json(ErrorBody(CityNotFound))), ConnFail),
      Scenario(Reply(200, Json(WeatherBody)), Reply(401, NotJson)),
      Scenario(Reply(200, NotJson), ConnFail),
      Scenario(Reply(200, Json(WeatherBody)), Reply(200, Json(EmptyList))),
      Scenario(Reply(200, Json(WeatherBody)), Reply(500, Json(EmptyDict))),
      Scenario(Reply(404, Json(EmptyList)), ConnFail) }

\* every provider behaviour of the model
Scenarios == OkScenarios \cup FailScenarios

\* one behaviour for each branch of _background_fetch and of _process_queue
CoreScenarios ==
    { Ok(OneCallRain), Ok(OneCallBadHourly),
      Scenario(Reply(404, Json(ErrorBody(CityNotFound))), ConnFail),
      Scenario(Reply(200, Json(WeatherBody)), Reply(401, NotJson)),
      Scenario(Reply(200, Json(WeatherBody)), TimedOut) }

\* a result that displays, one whose display raises, and one failure
LiveScenarios ==
    { Ok(OneCallRain), Ok(OneCallBadHourly),
      Scenario(Reply(404, Json(ErrorBody(CityNotFound))), ConnFail) }

\* two conditions to render and one failure
RenderScenarios ==
    { Ok(OneCallBare), Ok(OneCallStorm),
      Scenario(Reply(404, Json(ErrorBody(CityNotFound))), ConnFail) }

\* a result for every pair of sunrise and sunset
SunScenarios == { Ok(OneCallSun(sr, ss)) : sr \in SunStamps, ss \in SunStamps }

\* a result for every condition keyword
SceneScenarios == { Ok(OneCallOf(k)) : k \in Keywords }

(***************************************************************************)
(* Exceptions: the class, str(e), and for an HTTPError the response body.  *)
(***************************************************************************)
Exc(cls, text) == [cls |-> cls, text |-> text, body |-> NotJson]
HTTPError(st, b) ==
    [cls |-> "HTTPError",
     text |-> ToString(st) \o (IF st < 500 THEN " Client Error" ELSE " Server Error"),
     body |-> b]
IsHTTPError(e) == e.cls = "HTTPError"

Return(v) == [ret |-> v]
Raise(e) == [exc |-> e]
Raised(r) == "exc" \in DOMAIN r

\* requests.get(...): the wire outcome of one request
RequestsGet(x) ==
    IF x.kind = "conn" THEN Raise(Exc("ConnectionError", "connection failed"))
    ELSE IF x.kind = "timeout" THEN Raise(Exc("Timeout", "read timed out"))
    ELSE Return(x)

\* Response.raise_for_status()
RaiseForStatus(r) ==
    IF r.status_code >= 400 /\ r.status_code < 600
    THEN Raise(HTTPError(r.status_code, r.body))
    ELSE Return(r)

\* Response.json()
ResponseJson(r) ==
    IF "json" \in DOMAIN r.body THEN Return(r.body.json)
    ELSE Raise(Exc("JSONDecodeError", "Expecting value"))

\* get, raise_for_status, json in sequence: the decoded body or the exception
HttpJson(x) ==
    Bind(RequestsGet(x), LAMBDA g :
        IF Raised(g) THEN g
        ELSE Bind(RaiseForStatus(g.ret), LAMBDA s :
                 IF Raised(s) THEN s ELSE ResponseJson(s.ret)))

\* a key of safe_get: a dict key or a list index
K(s) == PyText(s)

\* the snapshot WeatherFetcher.fetch builds from the two decoded bodies
Combined(data, oc) ==
    PyDict([location_name |->
               PyText(Fmt(safe_get(data, <<K("name"), K("")>>, PyNone)) \o ", "
                      \o Fmt(safe_get(data, <<K("sys"), K("country"), K("")>>, PyNone))),
            lat |-> safe_get(data, <<K("coord"), K("lat")>>, PyNone),
            lon |-> safe_get(data, <<K("coord"), K("lon")>>, PyNone),
            tz_offset |-> safe_get(data, <<K("timezone")>>, PyNum(0)),
            current |-> DictGet(oc, "current", EmptyDict),
            hourly |-> DictGet(oc, "hourly", EmptyList),
            daily |-> DictGet(oc, "daily", EmptyList)])

\* WeatherFetcher.fetch(location) against a provider behaving as sc
Fetch(key, location, sc) ==
    IF key = "" THEN Raise(Exc("ValueError", "OpenWeatherMap API key not set."))
    ELSE Bind(HttpJson(sc.first), LAMBDA d :
             IF Raised(d) THEN d
             ELSE Bind(HttpJson(sc.second), LAMBDA o :
                      IF Raised(o) THEN o
                      ELSE IF ~IsDict(o.ret)
                      THEN Raise(Exc("AttributeError", "object has no attribute 'get'"))
                      ELSE Return(Combined(d.ret, o.ret))))

(***************************************************************************)
(* The fetch worker.                                                       *)
(***************************************************************************)
\* the message taken to be str(he) whatever the body holds
HttpErrorMessageAlwaysStr(he) == he.text

\* he.response.json().get("message", str(he)), str(he) when that raises
HttpErrorMessage(he) ==
    IF "json" \in DOMAIN he.body /\ IsDict(he.body.json)
    THEN Fmt(DictGet(he.body.json, "message", PyText(he.text)))
    ELSE he.text

\* _background_fetch whose inner except clause puts a message of its own
BackgroundFetchPutsTwice(key, loc, sc) ==
    Bind(Fetch(key, loc, sc), LAMBDA r :
    IF ~Raised(r)
    THEN [puts |-> << <<"ok", r.ret>> >>, escaped |-> FALSE]
    ELSE IF IsHTTPError(r.exc)
    THEN [puts |->
             IF "json" \in DOMAIN r.exc.body
             THEN << <<"error", PyText("API error: " \o HttpErrorMessage(r.exc))>> >>
             ELSE << <<"error", PyText("API error: " \o r.exc.text)>>,
                     <<"error", PyText("API error: " \o r.exc.text)>> >>,
          escaped |-> FALSE]
    ELSE [puts |-> << <<"error", PyText("Fetch error: " \o r.exc.text)>> >>,
          escaped |-> FALSE])

\* _background_fetch without its except Exception clause
BackgroundFetchNoCatchAll(key, loc, sc) ==
    Bind(Fetch(key, loc, sc), LAMBDA r :
    IF ~Raised(r)
    THEN [puts |-> << <<"ok", r.ret>> >>, escaped |-> FALSE]
    ELSE IF IsHTTPError(r.exc)
    THEN [puts |-> << <<"error", PyText("API error: " \o HttpErrorMessage(r.exc))>> >>,
          escaped |-> FALSE]
    ELSE [puts |-> <<>>, escaped |-> TRUE])

\* _background_fetch(loc): the messages it puts on the queue, in order, and
\* whether an exception leaves the thread
BackgroundFetch(key, loc, sc) ==
    Bind(Fetch(key, loc, sc), LAMBDA r :
    IF ~Raised(r)
    THEN [puts |-> << <<"ok", r.ret>> >>, escaped |-> FALSE]
    ELSE IF IsHTTPError(r.exc)
    THEN [puts |-> << <<"error", PyText("API error: " \o HttpErrorMessage(r.exc))>> >>,
          escaped |-> FALSE]
    ELSE [puts |-> << <<"error", PyText("Fetch error: " \o r.exc.text)>> >>,
          escaped |-> FALSE])

(***************************************************************************)
(* WeatherCanvas: the scene one _step draws, set_condition, stop_animation.*)
(***************************************************************************)
Clear == <<"c", "l", "e", "a", "r">>

SceneStormFirst(cond) ==
    IF Contains(cond, <<"t", "h", "u", "n", "d", "e", "r">>)
       \/ Contains(cond, <<"s", "t", "o", "r", "m">>) THEN "storm"
    ELSE IF Contains(cond, <<"r", "a", "i", "n">>)
            \/ Contains(cond, <<"d", "r", "i", "z", "z", "l", "e">>) THEN "rain"
    ELSE IF Contains(cond, <<"s", "n", "o", "w">>) THEN "snow"
    ELSE IF Contains(cond, <<"c", "l", "o", "u", "d">>) THEN "cloud"
    ELSE IF Contains(cond, <<"f", "o", "g">>) \/ Contains(cond, <<"m", "i", "s", "t">>)
            \/ Contains(cond, <<"h", "a", "z", "e">>) THEN "fog"
    ELSE "sun"

\* the branch of _step that cond selects
Scene(cond) ==
    IF Contains(cond, <<"r", "a", "i", "n">>)
       \/ Contains(cond, <<"d", "r", "i", "z", "z", "l", "e">>) THEN "rain"
    ELSE IF Contains(cond, <<"s", "n", "o", "w">>) THEN "snow"
    ELSE IF Contains(cond, <<"c", "l", "o", "u", "d">>) THEN "cloud"
    ELSE IF Contains(cond, <<"f", "o", "g">>) \/ Contains(cond, <<"m", "i", "s", "t">>)
            \/ Contains(cond, <<"h", "a", "z", "e">>) THEN "fog"
    ELSE IF Contains(cond, <<"t", "h", "u", "n", "d", "e", "r">>)
            \/ Contains(cond, <<"s", "t", "o", "r", "m">>) THEN "storm"
    ELSE "sun"

\* _step with the lightning drawn on every fifteenth tick
FrameFlashEvery15(cond, t) ==
    LET sc == Scene(cond) IN
    [scene |-> sc,
     t |-> IF sc \in {"rain", "snow", "fog", "sun"} THEN t ELSE 0,
     lightning |-> sc = "storm" /\ t % 15 = 0]

\* the frame _step leaves on the canvas for cond when _anim_t reads t
Frame(cond, t) ==
    LET sc == Scene(cond) IN
    [scene |-> sc,
     t |-> IF sc \in {"rain", "snow", "fog", "sun"} THEN t ELSE 0,
     lightning |-> sc = "storm" /\ (t \div 15) % 10 = 0]

Cleared == [scene |-> "none", t |-> 0, lightning |-> FALSE]

\* set_condition that sets the default whatever it is given
SetConditionIgnoring(v, c) ==
    [v EXCEPT !.condition = Clear,
              !._anim_t = 0,
              !.canvas = Cleared]

\* set_condition(c) on the renderer fields of v, the lock held
SetCondition(v, c) ==
    [v EXCEPT !.condition = Lower(IF c = <<>> THEN Clear ELSE c),
              !._anim_t = 0,
              !.canvas = Cleared]

(***************************************************************************)
(* The display.  The UI thread's state as one record v: status, ui,        *)
(* current_data, condition, _anim_t, canvas, widgets, and exc, the text of *)
(* the exception _update_ui_with_data is unwinding with ("" when none).    *)
(***************************************************************************)
InitialUi ==
    [lbl_location |-> "Location -",
     lbl_temp |-> "--C",
     lbl_feels |-> "Feels like --C",
     lbl_descr |-> "-",
     stat_humidity |-> "Humidity: -",
     stat_wind |-> "Wind: -",
     stat_pressure |-> "Pressure: -",
     stat_visibility |-> "Visibility: -",
     sunrise_label |-> "Sunrise: --:--",
     sunset_label |-> "Sunset: --:--",
     sun_arc |-> "",
     hourly |-> <<>>]

Pad2(n) == IF n < 10 THEN "0" \o ToString(n) ELSE ToString(n)

\* strftime("%H:%M") of a time of day given in seconds (the machine's zone is UTC)
HHMM(secs) == Pad2((secs % 86400) \div 3600) \o ":" \o Pad2((secs % 3600) \div 60)

\* timestamp_to_local(dt_ts, tz_offset): the seconds shown, or the exception
timestamp_to_local(dt_ts, tz_offset) ==
    IF IsNum(dt_ts) /\ IsNum(tz_offset) THEN Return(dt_ts.num + tz_offset.num)
    ELSE IF IsNum(dt_ts) THEN Return(dt_ts.num)
    ELSE Raise(Exc("TypeError", "an integer is required"))

\* meters_per_sec_to_kmh(ms), rounded as f"{...:.0f}" prints it
KmhText(ms) == IF IsNum(ms) THEN ToString((ms.num * 36 + 5) \div 10) ELSE "0"

Min(a, b) == IF a < b THEN a ELSE b
Max(a, b) == IF a > b THEN a ELSE b

\* _draw_sun_arc without the clamp of elapsed
DaylightPercentUnclamped(now_ts, sunrise_ts, sunset_ts) ==
    LET total == sunset_ts - sunrise_ts
        elapsed == now_ts - sunrise_ts
    IN IF total > 0 THEN (elapsed * 100) \div total ELSE 0

\* the percentage _draw_sun_arc prints: int(pct*100) of the exact quotient
DaylightPercent(now_ts, sunrise_ts, sunset_ts) ==
    LET total == sunset_ts - sunrise_ts
        elapsed == Max(0, Min(now_ts - sunrise_ts, total))
    IN IF total > 0 THEN (elapsed * 100) \div total ELSE 0

\* _draw_sun_arc: what the arc canvas shows afterwards (its exceptions are swallowed)
DrawSunArc(now_ts, sunrise, sunset) ==
    IF IsNum(sunrise) /\ IsNum(sunset)
    THEN ToString(DaylightPercent(now_ts, sunrise.num, sunset.num)) \o "% daylight"
    ELSE "arc"

\* the icon of an hourly card
Icon(text) ==
    Bind(text, LAMBDA main :
    IF Contains(main, <<"r", "a", "i", "n">>) THEN "rain"
    ELSE IF Contains(main, <<"c", "l", "o", "u", "d">>) THEN "cloud"
    ELSE IF Contains(main, <<"s", "n", "o", "w">>) THEN "snow"
    ELSE IF Contains(main, <<"f", "o", "g">>) \/ Contains(main, <<"m", "i", "s", "t">>)
    THEN "fog"
    ELSE "sun")

Fail(v, text) == [v EXCEPT !.exc = text]
\* the next statement of a try block: skipped once an exception was raised
Then(v, Stage(_)) == Bind(v, LAMBDA w : IF w.exc # "" THEN w ELSE Stage(w))

\* one pass of the hourly loop: the card's widgets, or the widgets created before
\* the exception and its text
HourlyCard(entry, tz) ==
    Bind(entry, LAMBDA h :
    IF ~IsDict(h) THEN [card |-> <<>>, exc |-> "object has no attribute 'get'"]
    ELSE Bind(<<timestamp_to_local(DictGet(h, "dt", PyNone), tz),
                safe_get(h, <<K("weather"), PyNum(0), K("main")>>, PyStr(Clear)),
                DictGet(h, "temp", PyNone)>>, LAMBDA local :
         LET lt == local[1]
             main == local[2]
             temp_h == local[3]
         IN IF Raised(lt) THEN [card |-> <<>>, exc |-> lt.exc.text]
            ELSE IF ~IsStr(main)
            THEN [card |-> <<HHMM(lt.ret)>>, exc |-> "object has no attribute 'lower'"]
            ELSE IF ~IsNum(temp_h)
            THEN [card |-> <<HHMM(lt.ret), Icon(Lower(main.str))>>,
                  exc |-> "unsupported format string passed to " \o Fmt(temp_h)]
            ELSE [card |-> <<HHMM(lt.ret), Icon(Lower(main.str)),
                             ToString(temp_h.num) \o "C">>,
                  exc |-> ""]))

\* the hourly loop over hs, from the cards made so far
RECURSIVE HourlyLoop(_, _, _)
HourlyLoop(v, hs, tz) ==
    IF hs = <<>> THEN v
    ELSE Bind(HourlyCard(Head(hs), tz), LAMBDA c :
             Bind([v EXCEPT !.ui.hourly = Append(@, c.card)], LAMBDA v1 :
                 IF c.exc # "" THEN Fail(v1, c.exc) ELSE HourlyLoop(v1, Tail(hs), tz)))

\* _update_ui_with_data(combined) reaches its call of set_condition
CallsSetCondition(combined) ==
    LET cur == DictGet(combined, "current", EmptyDict) IN
    /\ IsDict(cur)
    /\ IsStr(safe_get(cur, <<K("weather"), PyNum(0), K("description")>>, PyStr(<<>>)))
    /\ IsStr(safe_get(cur, <<K("weather"), PyNum(0), K("main")>>, PyStr(Clear)))

\* the try block of _update_ui_with_data(combined) when the clock reads now_ts:
\* v.exc is the text of the exception that ended it, "" when it ran to its end
UpdateUiTry(v0, combined, now_ts) ==
    Bind(<<DictGet(combined, "location_name", PyText("Unknown location")),
           DictGet(combined, "tz_offset", PyNum(0)),
           DictGet(combined, "current", EmptyDict),
           safe_get(DictGet(combined, "current", EmptyDict),
                    <<K("weather"), PyNum(0), K("description")>>, PyStr(<<>>)),
           safe_get(DictGet(combined, "current", EmptyDict),
                    <<K("weather"), PyNum(0), K("main")>>, PyStr(Clear)),
           DictGet(combined, "hourly", EmptyList)>>, LAMBDA local :
    LET loc_name == local[1]
        tz_off == local[2]
        cur == local[3]
        Get(k) == DictGet(cur, k, PyNone)
        descr == local[4]
        cond_main == local[5]
        hourly == local[6]
        Location(v) == [v EXCEPT !.ui.lbl_location = Fmt(loc_name)]
        Current(v) ==
            IF ~IsDict(cur) THEN Fail(v, "object has no attribute 'get'")
            ELSE IF ~IsStr(descr) THEN Fail(v, "object has no attribute 'title'")
            ELSE IF ~IsStr(cond_main) THEN Fail(v, "object has no attribute 'lower'")
            ELSE SetCondition(v, Lower(cond_main.str))
        Temp(v) ==
            IF IsNone(Get("temp")) THEN v
            ELSE IF ~IsNum(Get("temp")) THEN Fail(v, "unsupported format string")
            ELSE [v EXCEPT !.ui.lbl_temp = ToString(Get("temp").num) \o ".0C"]
        Feels(v) ==
            IF IsNone(Get("feels_like")) THEN v
            ELSE IF ~IsNum(Get("feels_like")) THEN Fail(v, "unsupported format string")
            ELSE [v EXCEPT !.ui.lbl_feels =
                     "Feels like " \o ToString(Get("feels_like").num) \o ".0C"]
        Stats(v) ==
            LET v1 == [v EXCEPT
                         !.ui.lbl_descr =
                             IF descr.str = <<>> THEN "-" ELSE Join(Title(descr.str)),
                         !.ui.stat_humidity = "Humidity: " \o Fmt(Get("humidity")) \o "%",
                         !.ui.stat_wind =
                             "Wind: " \o KmhText(DictGet(cur, "wind_speed", PyNum(0)))
                             \o " km/h",
                         !.ui.stat_pressure =
                             "Pressure: " \o Fmt(Get("pressure")) \o " hPa"]
                vis == Get("visibility")
            IN IF IsNone(vis) THEN [v1 EXCEPT !.ui.stat_visibility = "Visibility: -"]
               ELSE IF ~IsNum(vis) THEN Fail(v1, "unsupported operand type(s) for /")
               ELSE [v1 EXCEPT !.ui.stat_visibility =
                        "Visibility: " \o ToString(((vis.num + 50) \div 100) \div 10)
                        \o "." \o ToString(((vis.num + 50) \div 100) % 10) \o " km"]
        Sun(v) ==
            IF Truthy(Get("sunrise")) /\ Truthy(Get("sunset"))
            THEN LET r == timestamp_to_local(Get("sunrise"), tz_off)
                     t == timestamp_to_local(Get("sunset"), tz_off)
                 IN IF Raised(r) THEN Fail(v, r.exc.text)
                    ELSE IF Raised(t) THEN Fail(v, t.exc.text)
                    ELSE [v EXCEPT
                            !.ui.sunrise_label = "Sunrise: " \o HHMM(r.ret),
                            !.ui.sunset_label = "Sunset: " \o HHMM(t.ret),
                            !.ui.sun_arc = DrawSunArc(now_ts, Get("sunrise"), Get("sunset")),
                            !.arc_now = now_ts]
            ELSE [v EXCEPT !.ui.sunrise_label = "Sunrise: --:--",
                           !.ui.sunset_label = "Sunset: --:--",
                           !.ui.sun_arc = ""]
        Hourly(v) ==
            IF ~(IsList(hourly) \/ IsStr(hourly)) THEN Fail(v, "unhashable type: 'slice'")
            ELSE IF IsStr(hourly)
            THEN IF hourly.str = <<>> THEN [v EXCEPT !.ui.hourly = <<>>]
                 ELSE Fail([v EXCEPT !.ui.hourly = << <<>> >>],
                           "object has no attribute 'get'")
            ELSE HourlyLoop([v EXCEPT !.ui.hourly = <<>>],
                            SubSeq(hourly.list, 1, Min(HourlyCap, Len(hourly.list))), tz_off)
        Showing(v) == [v EXCEPT !.status = "Showing: " \o Fmt(loc_name)]
    IN Then(Then(Then(Then(Then(Then(Then(Location(v0), Current), Temp), Feels),
                           Stats), Sun), Hourly), Showing))

\* _update_ui_with_data without its except clause: the exception ends the
\* callback and the status line keeps what it showed
UpdateUiUncaught(v0, combined, now_ts) ==
    [UpdateUiTry(v0, combined, now_ts) EXCEPT !.exc = ""]

\* _update_ui_with_data(combined): the try block and its except clause
UpdateUi(v0, combined, now_ts) ==
    LET Caught(done) ==
            IF done.exc # ""
            THEN [done EXCEPT !.status = "UI update error: " \o done.exc, !.exc = ""]
            ELSE done
    IN Bind(UpdateUiTry(v0, combined, now_ts), Caught)

(***************************************************************************)
(* The poller.                                                             *)
(***************************************************************************)
\* a receive that leaves the message on the queue
ReceivePeek(q) ==
    IF q = <<>> THEN [got |-> <<>>, rest |-> q] ELSE [got |-> <<Head(q)>>, rest |-> q]

\* a poller that drains the queue
ReceiveAll(q) == [got |-> q, rest |-> <<>>]

\* a receive that takes the newest message
ReceiveLast(q) ==
    IF q = <<>> THEN [got |-> <<>>, rest |-> q]
    ELSE [got |-> <<q[Len(q)]>>, rest |-> SubSeq(q, 1, Len(q) - 1)]

\* the messages one _process_queue invocation takes off the queue (one
\* get_nowait) and the queue it leaves
Receive(q) ==
    IF q = <<>> THEN [got |-> <<>>, rest |-> q]
    ELSE [got |-> <<Head(q)>>, rest |-> Tail(q)]

\* a poller that never reschedules itself
ReschedulesNever(q) == 0

\* a poller that reschedules itself whatever it finds
ReschedulesAlways(q) == 1

\* a poller that schedules two invocations when it finds the queue empty
ReschedulesTwice(q) == IF q = <<>> THEN 2 ELSE 0

\* the after(100, _process_queue) calls of one invocation that found queue q
Reschedules(q) == IF q = <<>> THEN 1 ELSE 0

\* an error branch that also blanks the display and resets the renderer
ApplyBlanking(v, msg, now_ts) ==
    IF msg.typ = "error"
    THEN SetCondition([v EXCEPT !.status = msg.payload.text, !.widgets = @ + 1,
                                !.ui = InitialUi],
                      Clear)
    ELSE UpdateUi([v EXCEPT !.current_data = msg.payload, !.status = "Data loaded."],
                  msg.payload, now_ts)

\* the body of _process_queue after a message was received
Apply(v, msg, now_ts) ==
    Bind(msg.payload, LAMBDA payload :
        IF msg.typ = "error"
        THEN [v EXCEPT !.status = payload.text, !.widgets = @ + 1]
        ELSE UpdateUi([v EXCEPT !.current_data = payload, !.status = "Data loaded."],
                      payload, now_ts))

RECURSIVE ApplyAll(_, _, _)
ApplyAll(v, msgs, now_ts) ==
    IF msgs = <<>> THEN v ELSE ApplyAll(Apply(v, Head(msgs), now_ts), Tail(msgs), now_ts)

\* on_search: the status it sets, the workers it starts, the pollers it schedules
OnSearchEffectBlankToo(text) ==
    LET loc == Strip(text) IN
    [status |-> "Searching: " \o Join(loc) \o " ...", start |-> <<loc>>, after |-> 1]

OnSearchEffect(text) ==
    LET loc == Strip(text) IN
    IF loc = <<>>
    THEN [status |-> "Enter a location (city or City,Country).",
          start |-> <<>>, after |-> 0]
    ELSE [status |-> "Searching: " \o Join(loc) \o " ...",
          start |-> <<loc>>, after |-> 1]

\* on_refresh
OnRefreshEffect(text) ==
    IF Strip(text) = <<>>
    THEN [status |-> "No location to refresh.", start |-> <<>>, after |-> 0]
    ELSE OnSearchEffect(text)

(***************************************************************************)
(* State.                                                                  *)
(***************************************************************************)
NewYork == <<"N", "e", "w", " ", "Y", "o", "r", "k", ",", "U", "S">>
SearchTexts == {NewYork, <<" ">>}
Nows == {43200, 70000}

View ==
    [status |-> status, ui |-> ui, current_data |-> current_data,
     condition |-> condition, _anim_t |-> _anim_t, canvas |-> canvas,
     widgets |-> widgets, exc |-> "", arc_now |-> hist.arcNow]

\* the entries self.favorites keeps at most
FavoritesCap == 12

\* favorites.json: absent, holding the JSON array of a list, or cut short by a
\* write that failed
NoFile == [kind |-> "absent"]
CutShort == [kind |-> "cut"]
FileOf(favs_list) == [kind |-> "json", list |-> favs_list]

\* load_favorites()
LoadFavorites(file) == IF file.kind = "json" THEN file.list ELSE <<>>

\* save_favorites(favs_list) on file: written, not opened, or cut short
SaveFavorites(file, favs_list) == {FileOf(favs_list), file, CutShort}

NoneLabel == <<"(", "n", "o", "n", "e", ")">>

\* fav_menu.configure(values=["(none)"] + favorites)
MenuOf(favs_list) == <<NoneLabel>> \o favs_list

\* locations of a favorites file this program wrote
TownLetters == <<"a", "b", "c", "d", "e", "f", "g", "h", "i", "j", "k", "l">>
Town(i) == <<"T", "o", "w", "n", " ", TownLetters[i]>>
Towns(n) == [i \in 1..n |-> Town(i)]

\* the files found at startup: none, a cut one, an empty list, a list with one
\* place left and a full list
Files == {NoFile, CutShort, FileOf(<<>>), FileOf(Towns(FavoritesCap - 1)),
          FileOf(Towns(FavoritesCap))}

\* the state after construction, API_KEY being one of keys and favorites.json
\* one of files
StartWith(keys, files) ==
    /\ api_key \in keys
    /\ favorites_file \in files
    /\ favorites = LoadFavorites(favorites_file)
    /\ fav_menu = MenuOf(favorites)
    /\ search_var = NewYork
    /\ threads = <<>>
    /\ queue = <<>>
    /\ pollers = 0
    /\ widgets = 0
    /\ status = "Ready"
    /\ ui = InitialUi
    /\ current_data = PyNone
    /\ condition = Clear
    /\ _anim_t = 0
    /\ _stop = FALSE
    /\ _lock = "free"
    /\ canvas = Cleared
    /\ anim = [pc |-> "while", cond |-> <<>>, tmp |-> 0]
    /\ destroyed = "no"
    /\ hist = [pushed |-> <<>>, received |-> <<>>,
               lastPoll |-> [before |-> 0, took |-> 0], firstTick |-> -1,
               raisedAt |-> -1, arcNow |-> -1]

\* the state after construction without a favorites file
Start(keys) == StartWith(keys, {NoFile})

\* API_KEY with OPENWEATHER_API_KEY unset: the built-in key
Init == Start({"6d47"})

\* the built-in key, and any favorites file
FavInit == StartWith({"6d47"}, Files)

\* API_KEY, OPENWEATHER_API_KEY being unset or set to the empty string
FetchInit == Start({"", "6d47"})

renderer == <<condition, _anim_t, _stop, _lock, canvas, anim>>
display == <<status, ui, current_data, widgets>>
favs == <<favorites, favorites_file, fav_menu>>

(***************************************************************************)
(* The UI thread's handlers.  They run one at a time, while the window     *)
(* exists.                                                                 *)
(***************************************************************************)
\* the user edits the search entry
TypeText(text) ==
    /\ destroyed = "no"
    /\ search_var # text
    /\ search_var' = text
    /\ UNCHANGED <<favs, api_key, threads, queue, pollers, display, renderer, destroyed, hist>>

\* save_current_favorite without the slice [:12]
SavedFavoritesUncapped(favs_list, loc) == <<loc>> \o favs_list

\* self.favorites after insert(0, loc) and the slice [:12]
SavedFavorites(favs_list, loc) ==
    SubSeq(<<loc>> \o favs_list, 1, Min(FavoritesCap, Len(favs_list) + 1))

\* save_current_favorite
SaveCurrentFavorite ==
    /\ destroyed = "no"
    /\ UNCHANGED <<api_key, search_var, threads, queue, pollers, widgets, ui,
                   current_data, renderer, destroyed, hist>>
    /\ LET loc == Strip(search_var) IN
       IF loc = <<>>
       THEN /\ status' = "No location to save."
            /\ UNCHANGED favs
       ELSE IF \A k \in 1..Len(favorites) : favorites[k] # loc
       THEN /\ favorites' = SavedFavorites(favorites, loc)
            /\ favorites_file' \in SaveFavorites(favorites_file, favorites')
            /\ fav_menu' = MenuOf(favorites')
            /\ status' = "Saved favorite: " \o Join(loc)
       ELSE /\ status' = "Already in favorites: " \o Join(loc)
            /\ UNCHANGED favs

Started(e) ==
    /\ Len(threads) + Len(e.start) <= MaxSearches
    /\ status' = e.status
    /\ threads' = threads \o [i \in 1..Len(e.start) |->
                                 [loc |-> e.start[i], state |-> "running", sc |-> <<>>,
                                  seen |-> Len(hist.received)]]
    /\ pollers' = pollers + e.after
    /\ UNCHANGED <<favs, api_key, search_var, queue, widgets, ui, current_data, renderer,
                   destroyed, hist>>

OnSearch ==
    /\ destroyed = "no"
    /\ Started(OnSearchEffect(search_var))

OnRefresh ==
    /\ destroyed = "no"
    /\ Started(OnRefreshEffect(search_var))

\* one _process_queue invocation
ProcessQueue(now_ts) ==
    /\ destroyed = "no"
    /\ pollers > 0
    /\ UNCHANGED <<favs, api_key, search_var, threads, _stop, _lock, anim, destroyed>>
    /\ LET r == Receive(queue)
           locks == \E i \in 1..Len(r.got) :
                       r.got[i].typ = "ok" /\ CallsSetCondition(r.got[i].payload)
       IN /\ locks => _lock = "free"
          /\ queue' = r.rest
          /\ pollers' = pollers - 1 + Reschedules(queue)
          /\ \E v \in {ApplyAll(View, r.got, now_ts)} :
               /\ status' = v.status
               /\ ui' = v.ui
               /\ current_data' = v.current_data
               /\ widgets' = v.widgets
               /\ condition' = v.condition
               /\ _anim_t' = v._anim_t
               /\ canvas' = v.canvas
               /\ hist' = [hist EXCEPT
                             !.received = @ \o r.got,
                             !.lastPoll = [before |-> Len(queue), took |-> Len(r.got)],
                             !.firstTick = IF locks THEN -1 ELSE @,
                             !.arcNow = v.arc_now]

\* _on_close: stop_animation, then destroy
OnCloseStop ==
    /\ destroyed = "no"
    /\ _stop' = TRUE
    /\ canvas' = Cleared
    /\ destroyed' = "closing"
    /\ UNCHANGED <<favs, api_key, search_var, threads, queue, pollers, display, condition,
                   _anim_t, _lock, anim, hist>>

OnCloseDestroy ==
    /\ destroyed = "closing"
    /\ destroyed' = "yes"
    /\ UNCHANGED <<favs, api_key, search_var, threads, queue, pollers, display, renderer, hist>>

(***************************************************************************)
(* A fetch worker thread runs _background_fetch against the provider.      *)
(***************************************************************************)
Worker(i, sc) ==
    /\ threads[i].state = "running"
    /\ UNCHANGED <<favs, api_key, search_var, pollers, display, renderer, destroyed>>
    /\ \E o \in {BackgroundFetch(api_key, threads[i].loc, sc)} :
       LET puts == [k \in 1..Len(o.puts) |->
                       [typ |-> o.puts[k][1], payload |-> o.puts[k][2], by |-> i]]
       IN /\ queue' = queue \o puts
          /\ threads' = [threads EXCEPT
                           ![i].state = IF o.escaped THEN "crashed" ELSE "done",
                           ![i].sc = sc]
          /\ hist' = [hist EXCEPT !.pushed = @ \o puts]

(***************************************************************************)
(* The animation thread: _anim_loop and _step, one shared access a step.   *)
(***************************************************************************)
\* _anim_loop without its try: an exception of _step ends the thread
AfterStepUncaught(raised) == IF raised THEN "exit" ELSE "sleep"

\* _anim_loop: where the thread goes on after _step returned or raised
AfterStep(raised) == "sleep"

\* while not self._stop
AnimWhile ==
    /\ anim.pc = "while"
    /\ anim' = [anim EXCEPT !.pc = IF _stop THEN "exit" ELSE "enter"]
    /\ UNCHANGED <<favs, api_key, search_var, threads, queue, pollers, display, condition,
                   _anim_t, _stop, _lock, canvas, destroyed, hist>>

\* _step: with self._lock
AnimAcquire ==
    /\ anim.pc = "enter"
    /\ _lock = "free"
    /\ _lock' = "anim"
    /\ anim' = [anim EXCEPT !.pc = "locked"]
    /\ UNCHANGED <<favs, api_key, search_var, threads, queue, pollers, display, condition,
                   _anim_t, _stop, canvas, destroyed, hist>>

\* _step: cond = self.condition, and the lock is released
AnimReadCondition ==
    /\ anim.pc = "locked"
    /\ anim' = [anim EXCEPT !.pc = "draw", !.cond = condition]
    /\ _lock' = "free"
    /\ UNCHANGED <<favs, api_key, search_var, threads, queue, pollers, display, condition,
                   _anim_t, _stop, canvas, destroyed, hist>>

\* _step: delete("all") and the scene, drawn with the _anim_t read now; on a
\* destroyed window the canvas calls raise and _anim_loop swallows that
AnimDraw ==
    /\ anim.pc = "draw"
    /\ anim' = [anim EXCEPT !.pc = AfterStep(destroyed = "yes"), !.cond = <<>>]
    /\ canvas' = IF destroyed = "yes" THEN canvas ELSE Frame(anim.cond, _anim_t)
    /\ hist' = [hist EXCEPT
                  !.firstTick = IF @ = -1 /\ anim.cond = condition THEN _anim_t ELSE @]
    /\ UNCHANGED <<favs, api_key, search_var, threads, queue, pollers, display, condition,
                   _anim_t, _stop, _lock, destroyed>>

\* _step: a canvas call raises, before or after delete("all") took effect
AnimDrawRaises ==
    /\ anim.pc = "draw"
    /\ destroyed # "yes"
    /\ anim' = [anim EXCEPT !.pc = "except", !.cond = <<>>]
    /\ canvas' \in {canvas, Cleared}
    /\ hist' = [hist EXCEPT !.raisedAt = _anim_t]
    /\ UNCHANGED <<favs, api_key, search_var, threads, queue, pollers, display, condition,
                   _anim_t, _stop, _lock, destroyed>>

\* _anim_loop: except Exception: pass
AnimExcept ==
    /\ anim.pc = "except"
    /\ anim' = [anim EXCEPT !.pc = AfterStep(TRUE)]
    /\ UNCHANGED <<favs, api_key, search_var, threads, queue, pollers, display, condition,
                   _anim_t, _stop, _lock, canvas, destroyed, hist>>

\* time.sleep(0.05), then the read of self._anim_t += 1, the counter below limit
AnimReadTickBelow(limit) ==
    /\ anim.pc = "sleep"
    /\ _anim_t < limit
    /\ anim' = [anim EXCEPT !.pc = "store", !.tmp = _anim_t]
    /\ UNCHANGED <<favs, api_key, search_var, threads, queue, pollers, display, condition,
                   _anim_t, _stop, _lock, canvas, destroyed, hist>>

AnimReadTick == AnimReadTickBelow(MaxTick)
AnimReadFlashTick == AnimReadTickBelow(MaxFlashTick)

\* the write of self._anim_t += 1
AnimStoreTick ==
    /\ anim.pc = "store"
    /\ _anim_t' = anim.tmp + 1
    /\ anim' = [anim EXCEPT !.pc = "while", !.tmp = 0]
    /\ UNCHANGED <<favs, api_key, search_var, threads, queue, pollers, display, condition,
                   _stop, _lock, canvas, destroyed, hist>>

Pipeline(S) ==
    \/ \E text \in SearchTexts : TypeText(text)
    \/ OnSearch
    \/ OnRefresh
    \/ \E now_ts \in Nows : ProcessQueue(now_ts)
    \/ \E i \in 1..Len(threads), sc \in S : Worker(i, sc)

Close ==
    \/ OnCloseStop
    \/ OnCloseDestroy

Animation ==
    \/ AnimWhile
    \/ AnimAcquire
    \/ AnimReadCondition
    \/ AnimDraw
    \/ AnimReadTick
    \/ AnimStoreTick

\* the pipeline with overlapping searches, the renderer as set_condition and
\* stop_animation leave it
Next == Pipeline(CoreScenarios) \/ Close

Spec == Init /\ [][Next]_vars

\* the pipeline while the window stays open; Tk's timer runs every pending
\* after() callback, and a started thread runs to its end
LiveNext == Pipeline(LiveScenarios)

LiveSpec ==
    /\ Init
    /\ [][LiveNext]_vars
    /\ WF_vars(\E now_ts \in Nows : ProcessQueue(now_ts))
    /\ WF_vars(\E i \in 1..Len(threads), sc \in LiveScenarios : Worker(i, sc))

\* the search __init__ schedules: on_search before any other was made
StartupSearch ==
    /\ threads = <<>>
    /\ OnSearch

\* a run's first fetches, against every provider behaviour
FetchSearch ==
    /\ Len(threads) < MaxFetches
    /\ OnSearch

FetchNext ==
    \/ \E text \in SearchTexts : TypeText(text)
    \/ FetchSearch
    \/ \E now_ts \in Nows : ProcessQueue(now_ts)
    \/ \E i \in 1..Len(threads), sc \in Scenarios : Worker(i, sc)
    \/ Close

FetchSpec == FetchInit /\ [][FetchNext]_vars

\* the whole program: the pipeline and the animation thread
RenderNext ==
    \/ OnSearch
    \/ \E now_ts \in Nows : ProcessQueue(now_ts)
    \/ \E i \in 1..Len(threads), sc \in RenderScenarios : Worker(i, sc)
    \/ Animation
    \/ Close

RenderSpec == Init /\ [][RenderNext]_vars

\* a thunderstorm found by one search, and the animation thread for as many
\* ticks as a second flash takes
FlashScenarios == { Ok(OneCallStorm) }

FlashNext ==
    \/ StartupSearch
    \/ \E now_ts \in Nows : ProcessQueue(now_ts)
    \/ \E i \in 1..Len(threads), sc \in FlashScenarios : Worker(i, sc)
    \/ AnimWhile
    \/ AnimAcquire
    \/ AnimReadCondition
    \/ AnimDraw
    \/ AnimReadFlashTick
    \/ AnimStoreTick

FlashSpec == Init /\ [][FlashNext]_vars

\* one search, its result applied at any clock reading
DaylightNext ==
    \/ FetchSearch
    \/ \E now_ts \in SunNows : ProcessQueue(now_ts)
    \/ \E i \in 1..Len(threads), sc \in SunScenarios : Worker(i, sc)
    \/ Close

DaylightSpec == Init /\ [][DaylightNext]_vars

\* typing locations and saving them as favorites, from any favorites file
FavTexts ==
    {NewYork, <<" ">>, <<" ">> \o Town(1) \o <<" ">>, <<"O", "s", "l", "o">>}

FavNext ==
    \/ \E text \in FavTexts : TypeText(text)
    \/ SaveCurrentFavorite

FavSpec == FavInit /\ [][FavNext]_vars

\* the animation thread with draws that raise, beside one search and the close
DrawNext ==
    \/ FetchSearch
    \/ \E now_ts \in Nows : ProcessQueue(now_ts)
    \/ \E i \in 1..Len(threads), sc \in RenderScenarios : Worker(i, sc)
    \/ Animation
    \/ AnimDrawRaises
    \/ AnimExcept
    \/ Close

DrawSpec == Init /\ [][DrawNext]_vars

\* one search for a city under each condition keyword, and the animation thread
SceneNext ==
    \/ FetchSearch
    \/ \E now_ts \in Nows : ProcessQueue(now_ts)
    \/ \E i \in 1..Len(threads), sc \in SceneScenarios : Worker(i, sc)
    \/ Animation

SceneSpec == Init /\ [][SceneNext]_vars

(***************************************************************************)
(* Properties.                                                             *)
(***************************************************************************)
Threads == 1..Len(threads)
Running == {i \in Threads : threads[i].state = "running"}
PushesBy(i) == {k \in 1..Len(hist.pushed) : hist.pushed[k].by = i}

\* what a finished thread's fetch did
FetchOf(i) == Fetch(api_key, threads[i].loc, threads[i].sc)

\* C1: every fetch worker that has ended has put exactly one message on the
\* queue, a running one none; the message is ("ok", snapshot) when its fetch
\* returned and ("error", text) when its fetch raised.
ExactlyOnePush ==
    /\ \A i \in Threads :
          Cardinality(PushesBy(i)) = IF threads[i].state = "running" THEN 0 ELSE 1
    /\ \A k \in 1..Len(hist.pushed) :
          LET m == hist.pushed[k] IN
          IF Raised(FetchOf(m.by))
          THEN m.typ = "error" /\ IsText(m.payload)
          ELSE m.typ = "ok" /\ m.payload = FetchOf(m.by).ret

\* two workers have ended, one after a successful fetch, one after a failed one
OnePushEachWitness ==
    \E i, j \in Threads :
        /\ threads[i].state = "done" /\ ~Raised(FetchOf(i))
        /\ threads[j].state = "done" /\ Raised(FetchOf(j))
        /\ Len(hist.pushed) = 2

\* the failure a provider behaviour stands for, "none" for a success
FailureKind(key, sc) ==
    LET Wire(x) == x.kind \in {"conn", "timeout"}
        Status(x) == x.status_code >= 400
        Garbled(x) == "json" \notin DOMAIN x.body
    IN IF key = "" THEN "configuration"
       ELSE IF Wire(sc.first) THEN "network, first call"
       ELSE IF Status(sc.first) THEN "status"
       ELSE IF Garbled(sc.first) THEN "malformed"
       ELSE IF Wire(sc.second) THEN "network, second call"
       ELSE IF Status(sc.second) THEN "status"
       ELSE IF Garbled(sc.second) \/ ~IsDict(sc.second.body.json) THEN "malformed"
       ELSE "none"

\* C2: no thread ends with an exception, and a thread that met a failure of
\* any kind (missing key, connection failure or timeout on either call, error
\* status, malformed body) has ended normally with one error result.
NoFailureEscapes ==
    \A i \in Threads :
        /\ threads[i].state # "crashed"
        /\ (threads[i].state = "done" /\ FailureKind(api_key, threads[i].sc) # "none")
              => \E k \in PushesBy(i) : hist.pushed[k].typ = "error"
        /\ (threads[i].state = "done" /\ FailureKind(api_key, threads[i].sc) = "none")
              => \E k \in PushesBy(i) : hist.pushed[k].typ = "ok"

\* a worker whose second call timed out has ended and its error is queued
TimeoutCaughtWitness ==
    \E i \in Threads :
        /\ threads[i].state = "done"
        /\ FailureKind(api_key, threads[i].sc) = "network, second call"
        /\ \E k \in 1..Len(queue) :
              queue[k] = [typ |-> "error", by |-> i,
                          payload |-> PyText("Fetch error: read timed out")]

\* a step of the poller that receives the message at the head of the queue
Receives == queue # <<>> /\ queue' = Tail(queue)

\* C3: a poller step that receives an error sets the status line to the
\* message and leaves the display fields, the stored snapshot and the
\* renderer's condition, tick and canvas as they were.
ErrorKeepsDisplay ==
    [][(Receives /\ Head(queue).typ = "error")
          => /\ status' = Head(queue).payload.text
             /\ UNCHANGED <<ui, current_data, condition, _anim_t, canvas>>]_vars

\* an error is on the status line over the data of an earlier result, the
\* renderer in that result's scene and past its first tick
ErrorOverDataWitness ==
    /\ status = "API error: city not found"
    /\ current_data # PyNone
    /\ ui.lbl_temp = "25.0C"
    /\ condition = Lower(Thunderstorm)
    /\ _anim_t > 0

\* C4, as claimed: once a search was made a poller invocation is always pending
PollerAlwaysPending ==
    (Len(threads) > 0 /\ destroyed = "no") => pollers > 0

\* C4, amended: a poller invocation is pending whenever a worker is running
\* or a message is queued
PollerPendingWhileOutstanding ==
    (Running # {} \/ queue # <<>>) => pollers > 0

\* a result was applied, nothing is outstanding, and no poller is pending
PollerChainEndedWitness ==
    /\ Len(hist.received) > 0
    /\ Running = {}
    /\ queue = <<>>
    /\ pollers = 0
    /\ destroyed = "no"

ReceivedFrom == {hist.received[k].by : k \in 1..Len(hist.received)}

\* C5: while the window is open and the timer and the threads are scheduled
\* fairly, no result is received twice, none is both received and still
\* queued, and again and again every result pushed so far has been received
\* (so none stays unreceived for ever).
EveryResultConsumedOnce ==
    /\ [](\A a, b \in 1..Len(hist.received) :
             a # b => hist.received[a].by # hist.received[b].by)
    /\ [](\A k \in 1..Len(queue) : queue[k].by \notin ReceivedFrom)
    /\ []<>(\A k \in 1..Len(hist.pushed) : hist.pushed[k].by \in ReceivedFrom)

\* every search of the run was made, and every result was received
AllConsumedWitness ==
    /\ Len(threads) = MaxSearches
    /\ Len(hist.pushed) = MaxSearches
    /\ hist.received = hist.pushed
    /\ queue = <<>>

\* C6: a poller step that receives anything receives the one message at the
\* head of the queue and leaves the others queued for a later invocation.
OneResultPerPoll ==
    [][Len(hist.received') > Len(hist.received)
          => /\ queue # <<>>
             /\ hist.received' = Append(hist.received, Head(queue))
             /\ queue' = Tail(queue)]_vars

\* the last poller invocation found two results queued, took one, and the
\* other is still queued
SecondLeftQueuedWitness ==
    /\ hist.lastPoll = [before |-> 2, took |-> 1]
    /\ Len(queue) = 1
    /\ pollers > 0

\* a result whose application raises inside _update_ui_with_data
BadResult(m) == m.typ = "ok" /\ UpdateUiTry(View, m.payload, 0).exc # ""

\* a search made after a bad result was received
AfterBadResult(i) ==
    /\ i \in Threads
    /\ \E a \in 1..threads[i].seen : BadResult(hist.received[a])

\* C7: a poller step that receives a successful result whose application
\* raises ends with 'UI update error' on the status line; a search made after
\* that starts its worker and schedules its poller, and again and again every
\* such search has had its result received (so none waits for ever).
BadResultSurvived ==
    /\ [][(Receives /\ BadResult(Head(queue)))
             => status' = "UI update error: unsupported format string passed to None"]_vars
    /\ [][(status = "UI update error: unsupported format string passed to None"
           /\ status' = "Searching: New York,US ...")
             => /\ Len(threads') = Len(threads) + 1
                /\ threads'[Len(threads')].state = "running"
                /\ pollers' = pollers + 1]_vars
    /\ []<>(\A i \in Threads : AfterBadResult(i) => i \in ReceivedFrom)

\* a good result of a search made after a bad result is on display
GoodAfterBadWitness ==
    \E b \in 1..Len(hist.received) :
        /\ AfterBadResult(hist.received[b].by)
        /\ hist.received[b].typ = "ok"
        /\ ~BadResult(hist.received[b])
        /\ b = Len(hist.received)
        /\ status = "Showing: None, None"
        /\ current_data = hist.received[b].payload

\* the payload of the last successful result of a sequence of messages
RECURSIVE LastOk(_)
LastOk(ms) ==
    IF ms = <<>> THEN PyNone
    ELSE IF ms[Len(ms)].typ = "ok" THEN ms[Len(ms)].payload
    ELSE LastOk(SubSeq(ms, 1, Len(ms) - 1))

\* C8: results are received in the order they were pushed, whatever the
\* order of their requests, and the stored snapshot and the location label
\* are those of the last successful result received.
AppliedInPushOrder ==
    /\ Len(hist.received) <= Len(hist.pushed)
    /\ hist.received = SubSeq(hist.pushed, 1, Len(hist.received))
    /\ current_data = LastOk(hist.received)
    /\ LastOk(hist.received) # PyNone
          => ui.lbl_location = Fmt(LastOk(hist.received).dict.location_name)

\* the second search's snapshot was displayed first and the first search's,
\* a different one, has overwritten it
StaleOverwritesFreshWitness ==
    /\ Len(hist.received) = 2
    /\ hist.received[1].by = 2 /\ hist.received[1].typ = "ok"
    /\ hist.received[2].by = 1 /\ hist.received[2].typ = "ok"
    /\ hist.received[1].payload # hist.received[2].payload
    /\ current_data = hist.received[2].payload
    /\ ui.lbl_temp = "18.0C"

\* C9: the tick counter only counts up by one or restarts from 0, and the
\* first frame drawn for a condition is drawn with tick 0.
ResetNeverLost ==
    [][/\ _anim_t' \in {_anim_t, _anim_t + 1, 0}
       /\ (hist.firstTick = -1 /\ hist.firstTick' # -1) => hist.firstTick' = 0]_vars

\* C10: once stop_animation has returned the stop flag stays set, the tick
\* counter is not incremented and the canvas is not drawn on.
StoppedForGood ==
    [][_stop => (_stop' /\ _anim_t' = _anim_t /\ canvas' = canvas)]_vars

\* the animation thread draws a frame: _step's canvas calls
Draws == anim.pc = "draw" /\ anim'.pc = "sleep"

\* C11: a frame is drawn from a condition and a tick of the same renderer
\* state: the condition _step read under the lock is still the renderer's
\* condition when the frame is drawn with the tick counter read then.
FrameFromOneState ==
    [][Draws => anim.cond = condition]_vars

\* the ordered rules of the scene choice: substrings, and the scene drawn
SceneRules ==
    << [subs |-> {<<"r", "a", "i", "n">>, <<"d", "r", "i", "z", "z", "l", "e">>},
        scene |-> "rain"],
       [subs |-> {<<"s", "n", "o", "w">>}, scene |-> "snow"],
       [subs |-> {<<"c", "l", "o", "u", "d">>}, scene |-> "cloud"],
       [subs |-> {<<"f", "o", "g">>, <<"m", "i", "s", "t">>, <<"h", "a", "z", "e">>},
        scene |-> "fog"],
       [subs |-> {<<"t", "h", "u", "n", "d", "e", "r">>, <<"s", "t", "o", "r", "m">>},
        scene |-> "storm"] >>

Matching(cond) ==
    {k \in 1..Len(SceneRules) : \E sub \in SceneRules[k].subs : Contains(cond, sub)}

FirstMatch(cond) ==
    IF Matching(cond) = {} THEN "sun"
    ELSE SceneRules[CHOOSE k \in Matching(cond) : \A j \in Matching(cond) : k <= j].scene

\* C12: every frame drawn is exactly one of the six scenes, the one of the
\* first rule, in the order rain/drizzle, snow, cloud, fog/mist/haze,
\* thunder/storm, that the condition keyword matches, the sun when none does;
\* the scene is a function of the keyword alone.
SceneByFirstMatch ==
    [][Draws => /\ canvas'.scene = FirstMatch(anim.cond)
                /\ canvas'.scene \in {"rain", "snow", "cloud", "fog", "storm", "sun"}]_vars

\* a keyword matching the cloud rule and the storm rule was drawn as plain cloud
SeveralRulesWitness ==
    /\ condition = <<"s", "t", "o", "r", "m", " ", "c", "l", "o", "u", "d", "s">>
    /\ canvas.scene = "cloud"
    /\ Cardinality(Matching(condition)) = 2

\* the exchange of a failed fetch that failed
Failing(sc) ==
    IF \/ sc.first.kind # "reply"
       \/ sc.first.status_code >= 400
       \/ "json" \notin DOMAIN sc.first.body
    THEN sc.first ELSE sc.second

\* the description of the exception the failing exchange x raises
Description(x) ==
    IF x.kind = "conn" THEN "connection failed"
    ELSE IF x.kind = "timeout" THEN "read timed out"
    ELSE IF x.status_code >= 500 THEN ToString(x.status_code) \o " Server Error"
    ELSE IF x.status_code >= 400 THEN ToString(x.status_code) \o " Client Error"
    ELSE IF "json" \notin DOMAIN x.body THEN "Expecting value"
    ELSE "object has no attribute 'get'"

\* the error body of x is a JSON object with a message
CarriesMessage(x) ==
    /\ "json" \in DOMAIN x.body
    /\ IsDict(x.body.json)
    /\ "message" \in DOMAIN x.body.json.dict

\* the error text the claim gives for provider behaviour sc
ErrorText(key, sc) ==
    IF key = "" THEN "Fetch error: OpenWeatherMap API key not set."
    ELSE LET x == Failing(sc) IN
         IF x.kind = "reply" /\ x.status_code >= 400
         THEN "API error: " \o (IF CarriesMessage(x)
                                THEN Join(x.body.json.dict.message.str)
                                ELSE Description(x))
         ELSE "Fetch error: " \o Description(x)

\* C13: the error result of a failed fetch is "API error: " and the message of
\* the error body for an error status whose body carries one, "API error: "
\* and the exception's description for an error status without one, and
\* "Fetch error: " and the exception's description for every other failure.
ErrorTextsAsSpecified ==
    \A k \in 1..Len(hist.pushed) :
        LET sc == threads[hist.pushed[k].by].sc IN
        /\ hist.pushed[k].typ = "error" <=> FailureKind(api_key, sc) # "none"
        /\ hist.pushed[k].typ = "error"
              => hist.pushed[k].payload = PyText(ErrorText(api_key, sc))

\* the provider answered 404 with a message, and the worker queued it
ProviderMessageWitness ==
    \E k \in 1..Len(queue) :
        /\ threads[queue[k].by].sc.first = Reply(404, Json(ErrorBody(CityNotFound)))
        /\ queue[k].payload = PyText("API error: city not found")

\* C14: an exception of a frame's draw is swallowed: the thread goes on to
\* the sleep and the increment of the tick counter as after a frame that drew,
\* then to the loop test and the next frame; it leaves the loop only at the
\* loop test, with the stop flag set.
BadFrameSwallowed ==
    [][/\ (anim.pc = "except" /\ anim' # anim) => anim'.pc = "sleep"
       /\ (anim.pc = "sleep" /\ anim' # anim) => anim' = [anim EXCEPT !.pc = "store", !.tmp = _anim_t]
       /\ (anim.pc = "store" /\ anim' # anim) => (anim'.pc = "while" /\ _anim_t' = anim.tmp + 1)
       /\ (anim.pc = "while" /\ anim' # anim) => anim'.pc = (IF _stop THEN "exit" ELSE "enter")
       /\ anim'.pc = "exit" => (anim.pc = "exit" \/ (anim.pc = "while" /\ _stop))]_vars

\* the frame of tick 0 raised, and the frame of tick 1 is on the canvas of
\* the open window
NextFrameDrawnWitness ==
    /\ hist.raisedAt = 0
    /\ _anim_t = 1
    /\ canvas = Frame(condition, 1)
    /\ canvas.t = 1
    /\ ~_stop

\* the current record of snapshot m, and the fields of it that are absent
CurrentOf(m) == DictGet(m, "current", EmptyDict)
Absent(m, field) == field \notin DOMAIN CurrentOf(m).dict

\* C15: a poller step that applies a successful result whose current record
\* and hourly entries are objects with fields absent ends with the status
\* "Showing: <location>", and shows a placeholder for each absent field: no
\* label carries the text None, and the temperature labels of absent
\* temperatures show their dashes.
AbsentFieldsDegrade ==
    [][(Receives /\ Head(queue).typ = "ok" /\ IsDict(CurrentOf(Head(queue).payload)))
          => LET m == Head(queue).payload IN
             /\ status' = "Showing: " \o Fmt(DictGet(m, "location_name", PyNone))
             /\ Absent(m, "humidity") => ui'.stat_humidity # "Humidity: None%"
             /\ Absent(m, "pressure") => ui'.stat_pressure # "Pressure: None hPa"
             /\ Absent(m, "temp") => ui'.lbl_temp = InitialUi.lbl_temp
             /\ Absent(m, "feels_like") => ui'.lbl_feels = InitialUi.lbl_feels]_vars

\* hourly entries in increasing order of their timestamps
RECURSIVE InsertByDt(_, _)
InsertByDt(e, hs) ==
    IF hs = <<>> THEN <<e>>
    ELSE IF e.dict.dt.num < Head(hs).dict.dt.num THEN <<e>> \o hs
    ELSE <<Head(hs)>> \o InsertByDt(e, Tail(hs))

RECURSIVE SortByDt(_)
SortByDt(hs) == IF hs = <<>> THEN <<>> ELSE InsertByDt(Head(hs), SortByDt(Tail(hs)))

\* the earliest entries of hs, HourlyCap at most, in increasing order
Earliest(hs) == SubSeq(SortByDt(hs), 1, Min(HourlyCap, Len(hs)))

\* the hourly list the provider gave worker i
ProviderHourly(i) == DictGet(threads[i].sc.second.body.json, "hourly", EmptyList).list

\* results whose hourly entries all carry a timestamp and a temperature
Timestamped(i) ==
    \A k \in 1..Len(ProviderHourly(i)) :
        {"dt", "temp"} \subseteq DOMAIN ProviderHourly(i)[k].dict

\* C16: the snapshot a worker pushes carries the earliest entries of the
\* provider's hourly list, 12 at most, in increasing order of timestamp, and
\* the hourly cards on display after it was applied are the cards of these
\* entries, in that order.
HourlyEarliestInOrder ==
    /\ \A k \in 1..Len(hist.pushed) :
          (hist.pushed[k].typ = "ok" /\ Timestamped(hist.pushed[k].by))
             => DictGet(hist.pushed[k].payload, "hourly", PyNone)
                   = PyList(Earliest(ProviderHourly(hist.pushed[k].by)))
    /\ \A k \in 1..Len(hist.received) :
          (/\ k = Len(hist.received)
           /\ hist.received[k].typ = "ok"
           /\ Timestamped(hist.received[k].by)
           /\ status = "Showing: None, None")
             => LET hs == Earliest(ProviderHourly(hist.received[k].by)) IN
                ui.hourly = [j \in 1..Len(hs) |-> HourlyCard(hs[j], PyNum(3600)).card]

ArcDrawn == hist.arcNow # -1 /\ Len(hist.received) = 1

\* C18: the percentage on the sun arc is within 0..100; with sunset after
\* sunrise it is 0 up to sunrise, 100 from sunset on, and in between the
\* percentage of the day elapsed, cut to an integer; with sunset at or before
\* sunrise it is 0.
DaylightClamped ==
    ArcDrawn =>
        LET now == hist.arcNow
            sr == CurrentOf(current_data).dict.sunrise.num
            ss == CurrentOf(current_data).dict.sunset.num
        IN \E p \in 0..100 :
              /\ ui.sun_arc = ToString(p) \o "% daylight"
              /\ ss <= sr => p = 0
              /\ (ss > sr /\ now <= sr) => p = 0
              /\ (ss > sr /\ now >= ss) => p = 100
              /\ (ss > sr /\ now > sr /\ now < ss)
                    => /\ p * (ss - sr) <= (now - sr) * 100
                       /\ (now - sr) * 100 <= (p + 1) * (ss - sr)

\* the arc drawn at 08:20 of a day from 06:00 to 18:00 reads 19%
MiddayWitness ==
    /\ ArcDrawn
    /\ hist.arcNow = 30000
    /\ CurrentOf(current_data) = CurrentOf(Ok(OneCallSun(21600, 64800)).second.body.json)
    /\ ui.sun_arc = "19% daylight"

\* the ticks a flash lasts, and the ticks from one flash to the next
FlashLength == 15
FlashCycle == 150

\* the animation thread draws a frame of the thunder/storm scene
DrawsStorm == Draws /\ destroyed # "yes" /\ Scene(anim.cond) = "storm"

\* C19: in the thunder/storm scene the lightning is drawn on the frames of
\* the first 15 ticks of every 150, counting ticks from the last condition
\* change: a flash lasts 15 ticks and a new one starts every 150 ticks.
FlashEvery150Ticks ==
    [][DrawsStorm => (canvas'.lightning <=> _anim_t % FlashCycle < FlashLength)]_vars

\* C19 as stated: the flash has a period of 15 ticks, so that a frame of the
\* thunder/storm scene shows the lightning exactly when the frame 15 ticks
\* later does.
FlashEvery15Ticks ==
    [][DrawsStorm
          => (canvas'.lightning <=> Frame(anim.cond, _anim_t + FlashLength).lightning)]_vars

\* the frame of tick 150 is on the canvas and shows the second flash
SecondFlashWitness ==
    /\ _anim_t = FlashCycle
    /\ anim.pc = "sleep"
    /\ canvas.lightning
    /\ condition = Lower(Thunderstorm)

\* the 'main' of the first current-weather entry of snapshot m, 'Clear' when
\* it is absent
MainOf(m) ==
    LET w == DictGet(CurrentOf(m), "weather", EmptyList) IN
    IF Len(w.list) > 0 /\ "main" \in DOMAIN w.list[1].dict
    THEN w.list[1].dict.main.str ELSE Clear

\* C20: the renderer's condition holds no upper-case letter and is 'clear'
\* while no successful result was applied; a poller step that applies a
\* successful result sets it to the lowercased 'main' of the first
\* current-weather entry, 'clear' when that is absent, and no other step
\* changes it.
ConditionFollowsResults ==
    /\ [](\A i \in 1..Len(condition) : ~IsUpper(condition[i]))
    /\ []((\A k \in 1..Len(hist.received) : hist.received[k].typ # "ok")
             => condition = Clear)
    /\ [][/\ (Receives /\ Head(queue).typ = "ok")
                => condition' = Lower(MainOf(Head(queue).payload))
          /\ condition' # condition => (Receives /\ Head(queue).typ = "ok")]_vars

\* the result with main 'Thunderstorm' was applied, then one without a
\* current-weather entry: the condition went to 'thunderstorm' and is 'clear'
BackToClearWitness ==
    /\ Len(hist.received) = 2
    /\ hist.received[1].typ = "ok"
    /\ MainOf(hist.received[1].payload) = Thunderstorm
    /\ hist.received[2].typ = "ok"
    /\ CurrentOf(hist.received[2].payload) = EmptyDict
    /\ condition = Clear
    /\ hist.firstTick = 0

\* a poller invocation that found the queue empty, after one that did not
EmptyPoll == queue = <<>> /\ hist'.lastPoll # hist.lastPoll

\* C21: a poller invocation that finds the queue empty receives nothing,
\* leaves one invocation of itself scheduled in its place, and leaves the
\* status line, the display fields, the stored snapshot and the renderer as
\* they were.
EmptyPollChangesNothing ==
    [][EmptyPoll
          => /\ hist'.lastPoll = [before |-> 0, took |-> 0]
             /\ hist'.received = hist.received
             /\ queue' = <<>>
             /\ pollers > 0 /\ pollers' = pollers
             /\ UNCHANGED <<status, ui, current_data, widgets, condition, _anim_t,
                            _stop, canvas>>]_vars

\* a result was applied, and the poller of a later search whose worker is
\* still running has since found the queue empty
EmptyPollWitness ==
    /\ hist.lastPoll = [before |-> 0, took |-> 0]
    /\ Len(hist.received) = 1
    /\ queue = <<>>
    /\ pollers = 1
    /\ Running # {}
    /\ status = "Searching: New York,US ..."

\* a step that starts a thread
StartsThread == Len(threads') # Len(threads)

\* C22: a step that starts a thread is a search or refresh of a location that
\* is not empty once trimmed: it starts one thread, for that location, beside
\* the earlier threads, which stay as they are, and schedules one poller; a
\* search or refresh of an empty location starts no thread, schedules no
\* poller and changes the status line only.
OneFreshWorkerPerSearch ==
    [][/\ StartsThread
            => /\ Strip(search_var) # <<>>
               /\ threads' = Append(threads, threads'[Len(threads')])
               /\ threads'[Len(threads')].loc = Strip(search_var)
               /\ threads'[Len(threads')].state = "running"
               /\ pollers' = pollers + 1
               /\ status' = "Searching: " \o Join(Strip(search_var)) \o " ..."
       /\ Strip(search_var) = <<>> => ~StartsThread
       /\ (/\ status' # status
           /\ status' \in {"Enter a location (city or City,Country).",
                           "No location to refresh."})
            => /\ Strip(search_var) = <<>>
               /\ UNCHANGED <<threads, queue, pollers, ui, current_data, widgets,
                              renderer, search_var, hist>>]_vars

\* a second search was made while the worker of the first was in flight: two
\* workers run for the same location, each with its poller
TwoInFlightWitness ==
    /\ Len(threads) = 2
    /\ Running = {1, 2}
    /\ threads[1].loc = NewYork /\ threads[2].loc = NewYork
    /\ pollers = 2

\* C23: while the window exists, the poller invocations pending are as many
\* as the workers in flight and the messages queued together; the number goes
\* up by one with the thread a search starts, and down by one in the poller
\* step that receives a message, and in no other step.
PollersMatchOutstanding ==
    /\ [](destroyed # "yes" => pollers = Cardinality(Running) + Len(queue))
    /\ [][/\ pollers' > pollers => (StartsThread /\ pollers' = pollers + 1)
          /\ pollers' < pollers => (Receives /\ pollers' = pollers - 1)
          /\ Receives => pollers' = pollers - 1
          /\ Cardinality(Running') < Cardinality(Running)
                => (Len(queue') = Len(queue) + 1 /\ pollers' = pollers)]_vars

\* one worker is in flight, the message of another is queued, and two poller
\* invocations are pending
OneRunningOneQueuedWitness ==
    /\ Cardinality(Running) = 1
    /\ Len(queue) = 1
    /\ pollers = 2
    /\ destroyed = "no"

====
